---------------------------- MODULE Spec2Model ----------------------------
(***************************************************************************)
(* nomad-diner: the restaurant search pipeline of nomad-diner.py.          *)
(*                                                                         *)
(* One run of get_nearby_restaurants is modelled as a sequential state     *)
(* machine.  Every blocking collaborator request (geocode, nearby search,  *)
(* place details, directions) is a step whose response is chosen by the    *)
(* environment; a response may also be a failure that raises in the code   *)
(* (transport error, malformed body, missing key).                         *)
(*                                                                         *)
(* Python values: None is the empty tuple, a present optional value v is   *)
(* the one-element tuple <<v>>.  Ratings are in tenths (45 is 4.5),        *)
(* distances in metres, coordinates in units of 10^-FracDigits degrees.    *)
(* Strings that the code inspects character by character (the location)   *)
(* are tuples of one-character strings.                                    *)
(***************************************************************************)
EXTENDS Integers, Sequences, FiniteSets, TLC

\* ------------------------------------------------------------------ bounds
\* Longest candidate list a nearby-search response carries in the model.
MaxCandidates == 2
\* Fractional digits kept when a coordinate literal is converted by float().
FracDigits == 4

\* ----------------------------------------------------------- Python values
None == <<>>

Some(v) == <<v>>

\* dict.get(key, default) on an optional field
Get(opt, default) == IF opt = None THEN default ELSE opt[1]

\* Python truthiness of an optional number: None and 0 are falsy
Truthy(opt) == opt # None /\ opt[1] # 0

RECURSIVE Pow10(_)
Pow10(n) == IF n = 0 THEN 1 ELSE 10 * Pow10(n - 1)

\* ------------------------------------------------------------ is_coordinate
DigitChars == <<"0", "1", "2", "3", "4", "5", "6", "7", "8", "9">>

DigitSet == {DigitChars[k] : k \in 1..10}

\* the characters \s matches among those the model's inputs use
SpaceSet == {" ", "\t", "\n"}

\* Regular-expression pieces.  Each maps a set P of positions (the index of
\* the next unread character) to the set of positions after a match, so a
\* piece matches in every way the backtracking matcher could try.
Class(s, P, C) == {p + 1 : p \in {q \in P : q <= Len(s) /\ s[q] \in C}}

Lit(s, P, c) == Class(s, P, {c})

Opt(s, P, C) == P \cup Class(s, P, C)

Plus(s, P, C) ==
    {q \in 2..(Len(s) + 1) : \E p \in P : p < q /\ \A k \in p..(q - 1) : s[k] \in C}

Star(s, P, C) == P \cup Plus(s, P, C)

\* (\.\d+)?
FracAny(s, P) == P \cup Plus(s, Lit(s, P, "."), DigitSet)

\* (\.0+)?
FracZero(s, P) == P \cup Plus(s, Lit(s, P, "."), {"0"})

\* ([1-8]?\d(\.\d+)?|90(\.0+)?)
LatPattern(s, P) ==
    FracAny(s, Class(s, Opt(s, P, {"1", "2", "3", "4", "5", "6", "7", "8"}), DigitSet))
    \cup FracZero(s, Lit(s, Lit(s, P, "9"), "0"))

\* (180(\.0+)?|((1[0-7]\d)|([1-9]?\d))(\.\d+)?)
LngPattern(s, P) ==
    FracZero(s, Lit(s, Lit(s, Lit(s, P, "1"), "8"), "0"))
    \cup FracAny(s,
           Class(s, Class(s, Lit(s, P, "1"),
                          {"0", "1", "2", "3", "4", "5", "6", "7"}), DigitSet)
           \cup Class(s, Opt(s, P, DigitSet \ {"0"}), DigitSet))

\* positions reached after  ^[-+]?LAT,\s*[-+]?LNG
PatternEnds(s) ==
    LngPattern(s,
      Opt(s, Star(s, Lit(s, LatPattern(s, Opt(s, {1}, {"-", "+"})), ","), SpaceSet),
          {"-", "+"}))

\* $ matches at the end of the string and just before a final newline
AtEnd(s, p) == p = Len(s) + 1 \/ (p = Len(s) /\ s[p] = "\n")

is_coordinate(input_str) == \E p \in PatternEnds(input_str) : AtEnd(input_str, p)

\* ------------------------------------------------- float(), str.split(",")
StripLeft(s) ==
    LET n == Cardinality({k \in 1..Len(s) : \A j \in 1..k : s[j] \in SpaceSet})
    IN  SubSeq(s, n + 1, Len(s))

StripRight(s) ==
    LET n == Cardinality({k \in 1..Len(s) : \A j \in k..Len(s) : s[j] \in SpaceSet})
    IN  SubSeq(s, 1, Len(s) - n)

DigitVal(c) == (CHOOSE k \in 1..10 : DigitChars[k] = c) - 1

RECURSIVE DigitsVal(_)
DigitsVal(ds) ==
    IF ds = <<>> THEN 0
    ELSE 10 * DigitsVal(SubSeq(ds, 1, Len(ds) - 1)) + DigitVal(ds[Len(ds)])

\* float() of a signed decimal literal, in units of 10^-FracDigits
ParseFloat(str) ==
    LET t    == StripRight(StripLeft(str))
        neg  == t # <<>> /\ t[1] = "-"
        u    == IF t # <<>> /\ t[1] \in {"-", "+"} THEN Tail(t) ELSE t
        dots == {k \in 1..Len(u) : u[k] = "."}
        dot  == IF dots = {} THEN Len(u) + 1 ELSE CHOOSE k \in dots : TRUE
        ip   == SubSeq(u, 1, dot - 1)
        fr   == SubSeq(u, dot + 1, Len(u))
        frk  == SubSeq(fr, 1, IF Len(fr) < FracDigits THEN Len(fr) ELSE FracDigits)
        mag  == DigitsVal(ip) * Pow10(FracDigits)
                + DigitsVal(frk) * Pow10(FracDigits - Len(frk))
    IN  IF neg THEN 0 - mag ELSE mag

\* lat, lng = map(float, location.split(","))  (the pattern admits one comma)
ParseCoordinate(str) ==
    LET c == CHOOSE k \in 1..Len(str) : str[k] = ","
    IN  <<ParseFloat(SubSeq(str, 1, c - 1)), ParseFloat(SubSeq(str, c + 1, Len(str)))>>

\* ------------------------------------------------------------------- state
VARIABLES
    location,             \* argument: the raw location string
    distance,             \* argument: search radius in metres
    min_rating,           \* argument: optional minimum rating (tenths)
    max_price,            \* argument: optional maximum price level
    search,               \* argument: optional keyword
    max_results,          \* argument: result cap
    get_eta,              \* argument: ETA flag
    eta_threshold,        \* argument: optional ETA distance threshold
    pc,                   \* position of the run in get_nearby_restaurants
    response,             \* Some(geocode response) once one has arrived
    latlng,               \* <<lat, lng>> once the location is resolved
    res,                  \* the nearby-search response
    idx,                  \* position in res.results of the loop
    details,              \* details_res['result'] of the current candidate
    restaurant_details,   \* the accumulating result list
    returned,             \* Some(list) once the function has returned
    raised,               \* Some(exception) once the run has ended in an error
    requests,             \* history: every collaborator request, in order
    fetched               \* history: the details of each candidate iterated

args == <<location, distance, min_rating, max_price, search, max_results,
          get_eta, eta_threshold>>

vars == <<location, distance, min_rating, max_price, search, max_results,
          get_eta, eta_threshold, pc, response, latlng, res, idx, details,
          restaurant_details, returned, raised, requests, fetched>>

\* ------------------------------------------------------------------ inputs
\* argparse default of --distance
DefaultDistance == 20000

\* "40.7128,-74.0060"
NewYork ==
    <<"4", "0", ".", "7", "1", "2", "8", ",", "-", "7", "4", ".", "0", "0", "6", "0">>

Paris == <<"P", "a", "r", "i", "s">>

\* location strings around every edge of the coordinate pattern
LocationStrings ==
    { NewYork, Paris,
      <<"9", "0", ".", "0", ",", "1", "8", "0", ".", "0">>,
      <<"-", "9", "0", ",", "+", "1", "8", "0">>,
      <<"8", "9", ".", "5", ",", " ", "1", "7", "9", ".", "9">>,
      <<"9", "0", ".", "5", ",", "1", "0">>,
      <<"9", "1", ",", "0">>,
      <<"4", "5", ",", "1", "8", "1">>,
      <<"4", "5", ",", "1", "8", "0", ".", "5">>,
      <<"0", "5", ",", "1", "0">>,
      <<"1", ",", "2", ",", "3">>,
      <<"1", ",", "2", "\n">>,
      <<"1", " ", ",", "2">>,
      <<"1", ".", ",", "2">>,
      <<"8", ",", "1", "0", "0">>,
      <<"4", "5", ",", "-", "0">> }

\* a response that never arrives as a usable body: requests.get or .json()
\* raises, or a key the code indexes is missing
Failure == [status |-> "FAILURE"]

\* geocode responses: OK carries at least one candidate coordinate, here two
GeocodeResponses ==
    { [status |-> "OK", results |-> <<<<515074, -1278>>, <<488566, 23522>>>>],
      [status |-> "ZERO_RESULTS", results |-> <<>>],
      [status |-> "REQUEST_DENIED", results |-> <<>>] }

\* straight-line distances (metres) of candidates from the search origin
StraightDistances == {400, 1200}

\* a place stub: its identifier is its rank in the response; `straight` is the
\* haversine distance of its geometry.location from the search origin
\* (lines 124-125; the trigonometry of haversine_distance is not modelled)
CandidateLists ==
    UNION { { [k \in 1..n |-> [place_id |-> k, straight |-> d[k]]] :
              d \in [1..n -> StraightDistances] } : n \in 0..MaxCandidates }

NearbyResponses ==
    { [status |-> "OK", results |-> cs] : cs \in CandidateLists }
    \cup { [status |-> "ZERO_RESULTS", results |-> <<>>],
           [status |-> "OVER_QUERY_LIMIT", results |-> <<>>],
           [status |-> "UNKNOWN_ERROR",
            results |-> <<[place_id |-> 1, straight |-> 1200]>>] }

\* the detail record of place_id k; name identifies the place
DetailsResults(k) ==
    { [name |-> k, rating |-> r, price_level |-> p] :
      r \in {None, Some(30), Some(40)}, p \in {None, Some(2), Some(3)} }

DirectionsResponses ==
    { [status |-> "OK", routes |-> <<"12 mins">>],
      [status |-> "OK", routes |-> <<>>],
      [status |-> "ZERO_RESULTS", routes |-> <<>>] }

\* ------------------------------------------------------- code conditions
\* `if search:` -- None and the empty string are falsy
TruthyStr(opt) == opt # None /\ opt[1] # ""

\* variant: every location is sent to the geocoder
NeedsGeocodeAlways(loc) == TRUE

\* line 86: is_coordinate(location) picks the parse, anything else geocodes
NeedsGeocode(loc) == ~is_coordinate(loc)

\* variant: only the no-match status is treated as a failure
GeocodeFailsOnNoMatchOnly(resp) == resp.status = "ZERO_RESULTS"

\* get_location_coordinates, line 29: any status but OK raises
GeocodeFails(resp) == resp.status # "OK"

\* get_location_coordinates, lines 32-33: the first result's coordinate
GeocodeLatLng(resp) == resp.results[1]

\* params of the nearby-search request, lines 92-99
NearbyParams ==
    [location |-> latlng, radius |-> distance, type |-> "restaurant",
     keyword |-> IF TruthyStr(search) THEN search ELSE None]

\* variant: the emptiness of the list is tested instead of the status
NearbyFailsWhenEmpty(r) == r.results = <<>>

\* line 102: any status but OK returns []
NearbyFails(r) == r.status # "OK"

\* variant: the comparison lets one record too many through
CapReachedOffByOne == Len(restaurant_details) > max_results

\* variant: the cap counts the candidates iterated, accepted or not
CapReachedRaw == idx - 1 = max_results

\* line 107: the cap counts the records accepted so far
CapReached == Len(restaurant_details) = max_results

\* variant: a candidate without a rating is never rejected
RatingRejectsRatedOnly(d) ==
    Truthy(min_rating) /\ d.rating # None /\ d.rating[1] < min_rating[1]

\* line 119: min_rating and float(details.get('rating', 0)) < min_rating
RatingRejects(d) == Truthy(min_rating) /\ Get(d.rating, 0) < min_rating[1]

\* variant: an absent price level defaults to 0
PriceRejectsDefaultZero(d) ==
    Truthy(max_price) /\ Get(d.price_level, 0) > max_price[1]

\* line 121: max_price and details.get('price_level', 5) > max_price
PriceRejects(d) == Truthy(max_price) /\ Get(d.price_level, 5) > max_price[1]

\* variant: the price filter runs after the record is built, so it is lost
RejectedByRatingOnly(d) == RatingRejects(d)

\* lines 119-122: either filter skips the candidate
Rejected(d) == RatingRejects(d) \/ PriceRejects(d)

\* line 126: round(straight_distance / 10) * 10, round() rounding half to even
Round10(d) ==
    LET q == d \div 10
        r == d % 10
    IN  IF r < 5 THEN 10 * q
        ELSE IF r > 5 THEN 10 * (q + 1)
        ELSE IF q % 2 = 0 THEN 10 * q ELSE 10 * (q + 1)

\* variant: the threshold comparison is inclusive
WantsEtaInclusive(straight_distance) ==
    /\ get_eta
    /\ IF Truthy(eta_threshold) THEN straight_distance >= eta_threshold[1] ELSE TRUE

\* line 129: get_eta and (not eta_threshold or straight_distance > eta_threshold)
WantsEta(straight_distance) ==
    /\ get_eta
    /\ IF Truthy(eta_threshold) THEN straight_distance > eta_threshold[1] ELSE TRUE

\* get_driving_eta, lines 169-172
DrivingEta(eta_res) ==
    IF eta_res.status # "OK" \/ eta_res.routes = <<>>
    THEN None
    ELSE Some(eta_res.routes[1])

\* lines 132-143 (the fields copied verbatim from details are left out)
Restaurant(d, cand, driving_eta) ==
    [Name |-> d.name,
     Rating |-> Get(d.rating, "N/A"),
     PriceLevel |-> [k \in 1..Get(d.price_level, 0) |-> "$"],
     DrivingETA |-> driving_eta,
     HaversineDistance |-> Round10(cand.straight)]

Request(api, arg) == [api |-> api, arg |-> arg]

Exception(type, at, payload) == [type |-> type, at |-> at, payload |-> payload]

\* -------------------------------------------------------------------- Init
InitArgs(locations, ratings, prices, keywords, caps, flags, thresholds) ==
    /\ location \in locations
    /\ distance = DefaultDistance
    /\ min_rating \in ratings
    /\ max_price \in prices
    /\ search \in keywords
    /\ max_results \in caps
    /\ get_eta \in flags
    /\ eta_threshold \in thresholds

InitRun ==
    /\ pc = "resolve"
    /\ response = None
    /\ latlng = None
    /\ res = None
    /\ idx = 0
    /\ details = None
    /\ restaurant_details = <<>>
    /\ returned = None
    /\ raised = None
    /\ requests = <<>>
    /\ fetched = <<>>

Init ==
    /\ InitArgs({NewYork, Paris}, {None, Some(0), Some(40)},
                {None, Some(0), Some(2)}, {None}, {0, 1, 2}, BOOLEAN,
                {None, Some(0), Some(1000), Some(1200)})
    /\ InitRun

InitResolve ==
    /\ InitArgs(LocationStrings, {Some(40)}, {None}, {None, Some(""), Some("sushi")},
                {1}, {TRUE}, {Some(1000)})
    /\ InitRun

\* ----------------------------------------------------------------- actions
Raise(exc) ==
    /\ pc' = "raised"
    /\ raised' = Some(exc)
    /\ UNCHANGED returned

Return(value) ==
    /\ pc' = "returned"
    /\ returned' = Some(value)
    /\ UNCHANGED raised

\* lines 86-87
ResolveLiteral ==
    /\ pc = "resolve"
    /\ ~NeedsGeocode(location)
    /\ latlng' = ParseCoordinate(location)
    /\ pc' = "search"
    /\ UNCHANGED <<args, response, res, idx, details, restaurant_details, returned, raised,
                   requests, fetched>>

\* line 89, get_location_coordinates returning
GeocodeReturn ==
    /\ pc = "resolve"
    /\ NeedsGeocode(location)
    /\ \E resp \in GeocodeResponses :
         /\ ~GeocodeFails(resp)
         /\ resp.results # <<>>
         /\ response' = Some(resp)
         /\ latlng' = GeocodeLatLng(resp)
    /\ requests' = Append(requests, Request("geocode", location))
    /\ pc' = "search"
    /\ UNCHANGED <<args, res, idx, details, restaurant_details, returned, raised,
                   fetched>>

\* line 89, get_location_coordinates raising: line 27 (no usable body),
\* line 30 (status not OK) or line 32 (indexing an empty result list)
GeocodeRaise ==
    /\ pc = "resolve"
    /\ NeedsGeocode(location)
    /\ requests' = Append(requests, Request("geocode", location))
    /\ \/ /\ Raise(Exception("RequestError", "geocode", Failure))
          /\ UNCHANGED response
       \/ \E resp \in GeocodeResponses :
            /\ GeocodeFails(resp)
            /\ response' = Some(resp)
            /\ Raise(Exception("ValueError", "geocode", resp))
       \/ \E resp \in GeocodeResponses :
            /\ ~GeocodeFails(resp)
            /\ resp.results = <<>>
            /\ response' = Some(resp)
            /\ Raise(Exception("IndexError", "geocode", resp))
    /\ UNCHANGED <<args, latlng, res, idx, details, restaurant_details, fetched>>

\* lines 91-105, status OK
NearbyResults ==
    /\ pc = "search"
    /\ \E r \in NearbyResponses :
         /\ ~NearbyFails(r)
         /\ res' = r
    /\ requests' = Append(requests, Request("nearby", NearbyParams))
    /\ restaurant_details' = <<>>
    /\ idx' = 1
    /\ pc' = "loop"
    /\ UNCHANGED <<args, response, latlng, details, returned, raised, fetched>>

\* lines 91-103, any other status
NearbyEmpty ==
    /\ pc = "search"
    /\ \E r \in NearbyResponses :
         /\ NearbyFails(r)
         /\ res' = r
    /\ requests' = Append(requests, Request("nearby", NearbyParams))
    /\ Return(<<>>)
    /\ UNCHANGED <<args, response, latlng, idx, details, restaurant_details, fetched>>

\* line 101 raising
NearbyRaise ==
    /\ pc = "search"
    /\ requests' = Append(requests, Request("nearby", NearbyParams))
    /\ Raise(Exception("RequestError", "nearby", Failure))
    /\ UNCHANGED <<args, response, latlng, res, idx, details, restaurant_details, fetched>>

\* line 106 with the list exhausted, then line 146
LoopEnd ==
    /\ pc = "loop"
    /\ idx > Len(res.results)
    /\ Return(restaurant_details)
    /\ UNCHANGED <<args, response, latlng, res, idx, details, restaurant_details, requests,
                   fetched>>

\* lines 107-108, then line 146
LoopBreak ==
    /\ pc = "loop"
    /\ idx <= Len(res.results)
    /\ CapReached
    /\ Return(restaurant_details)
    /\ UNCHANGED <<args, response, latlng, res, idx, details, restaurant_details, requests,
                   fetched>>

\* lines 110-117
DetailsReturn ==
    /\ pc = "loop"
    /\ idx <= Len(res.results)
    /\ ~CapReached
    /\ \E d \in DetailsResults(res.results[idx].place_id) :
         /\ details' = d
         /\ fetched' = Append(fetched, d)
    /\ requests' = Append(requests, Request("details", res.results[idx].place_id))
    /\ pc' = "filter"
    /\ UNCHANGED <<args, response, latlng, res, idx, restaurant_details, returned, raised>>

\* lines 116-117 raising
DetailsRaise ==
    /\ pc = "loop"
    /\ idx <= Len(res.results)
    /\ ~CapReached
    /\ requests' = Append(requests, Request("details", res.results[idx].place_id))
    /\ Raise(Exception("RequestError", "details", Failure))
    /\ UNCHANGED <<args, response, latlng, res, idx, details, restaurant_details, fetched>>

\* lines 119-122: continue
FilterSkip ==
    /\ pc = "filter"
    /\ Rejected(details)
    /\ idx' = idx + 1
    /\ pc' = "loop"
    /\ UNCHANGED <<args, response, latlng, res, details, restaurant_details, returned,
                   raised, requests, fetched>>

\* lines 119-144 with no ETA lookup
AppendWithoutEta ==
    /\ pc = "filter"
    /\ ~Rejected(details)
    /\ ~WantsEta(res.results[idx].straight)
    /\ restaurant_details' =
         Append(restaurant_details, Restaurant(details, res.results[idx], None))
    /\ idx' = idx + 1
    /\ pc' = "loop"
    /\ UNCHANGED <<args, response, latlng, res, details, returned, raised, requests, fetched>>

\* lines 119-144 with get_driving_eta returning
AppendWithEta ==
    /\ pc = "filter"
    /\ ~Rejected(details)
    /\ WantsEta(res.results[idx].straight)
    /\ requests' = Append(requests,
         Request("directions", [origin |-> latlng, destination |-> res.results[idx]]))
    /\ \E eta_res \in DirectionsResponses :
         restaurant_details' =
           Append(restaurant_details,
                  Restaurant(details, res.results[idx], DrivingEta(eta_res)))
    /\ idx' = idx + 1
    /\ pc' = "loop"
    /\ UNCHANGED <<args, response, latlng, res, details, returned, raised, fetched>>

\* lines 119-130 with get_driving_eta raising (line 167 or line 172)
EtaRaise ==
    /\ pc = "filter"
    /\ ~Rejected(details)
    /\ WantsEta(res.results[idx].straight)
    /\ requests' = Append(requests,
         Request("directions", [origin |-> latlng, destination |-> res.results[idx]]))
    /\ Raise(Exception("RequestError", "directions", Failure))
    /\ UNCHANGED <<args, response, latlng, res, idx, details, restaurant_details, fetched>>

Next ==
    \/ ResolveLiteral
    \/ GeocodeReturn
    \/ GeocodeRaise
    \/ NearbyResults
    \/ NearbyEmpty
    \/ NearbyRaise
    \/ LoopEnd
    \/ LoopBreak
    \/ DetailsReturn
    \/ DetailsRaise
    \/ FilterSkip
    \/ AppendWithoutEta
    \/ AppendWithEta
    \/ EtaRaise

Spec == Init /\ [][Next]_vars

SpecResolve == InitResolve /\ [][Next]_vars

\* ------------------------------------------------------ claim vocabulary
ApiCount(api) == Cardinality({k \in 1..Len(requests) : requests[k].api = api})

\* the nearby-search response has arrived (res is bound)
NearbyAnswered ==
    \/ pc \in {"loop", "filter", "returned"}
    \/ pc = "raised" /\ raised[1].at \in {"details", "directions"}

\* the loop is running or has run over the list of an OK response
InLoop == NearbyAnswered /\ res.status = "OK"

\* candidate j with details d, as the specification words the two filters
BelowMinRating(d) ==
    min_rating # None /\ (IF d.rating = None THEN 0 ELSE d.rating[1]) < min_rating[1]

AboveMaxPrice(d) ==
    /\ max_price # None
    /\ max_price[1] # 0
    /\ (IF d.price_level = None THEN 5 ELSE d.price_level[1]) > max_price[1]

Passing(d) == ~BelowMinRating(d) /\ ~AboveMaxPrice(d)

\* the candidates (ranks in res.results) whose records are in the list
NamesOf(list) == [k \in 1..Len(list) |-> list[k].Name]

InList(list, j) == \E k \in 1..Len(list) : list[k].Name = j

RECURSIVE PassingRanks(_)
PassingRanks(n) ==
    IF n = 0 THEN <<>>
    ELSE IF Passing(fetched[n]) THEN Append(PassingRanks(n - 1), n)
    ELSE PassingRanks(n - 1)

\* the directions request issued for candidate j, if any
EtaRequested(j) ==
    \E k \in 1..Len(requests) :
       requests[k].api = "directions" /\ requests[k].arg.destination.place_id = j

\* the specification's rule for a driving-ETA lookup
EtaDue(cand) ==
    /\ get_eta
    /\ \/ eta_threshold = None
       \/ eta_threshold[1] = 0
       \/ cand.straight > eta_threshold[1]

\* ------------------------------------------------------------------ claims
\* C1: with a positive max_results the result list never holds more than
\* max_results records, at every point of the loop and at return.
C1_NeverMoreThanMaxResults ==
    max_results > 0 =>
      /\ Len(restaurant_details) <= max_results
      /\ returned # None => Len(returned[1]) <= max_results

\* C1 witness: the run returned through the break with a full list while
\* candidates were still left.
C1_Witness ==
    /\ pc = "returned"
    /\ InLoop
    /\ max_results > 0
    /\ Len(returned[1]) = max_results
    /\ idx <= Len(res.results)

\* C2: when min_rating is set, every record comes from a candidate rated at
\* least min_rating, a missing rating counting as 0; a candidate rated below
\* min_rating is never in the list.
C2_RatingFilter ==
    (min_rating # None /\ InLoop) =>
      /\ \A k \in 1..Len(restaurant_details) :
           LET d == fetched[restaurant_details[k].Name]
           IN  (IF d.rating = None THEN 0 ELSE d.rating[1]) >= min_rating[1]
      /\ \A j \in 1..Len(fetched) :
           (fetched[j].rating = None /\ min_rating[1] > 0)
             => ~InList(restaurant_details, j)
      /\ returned # None => NamesOf(returned[1]) = NamesOf(restaurant_details)

\* C2 witness: with min_rating 4.0, an unrated candidate was dropped and a
\* later candidate rated 4.0 was returned.
C2_Witness ==
    /\ pc = "returned"
    /\ min_rating = Some(40)
    /\ Len(fetched) = 2
    /\ fetched[1].rating = None
    /\ fetched[2].rating = Some(40)
    /\ NamesOf(returned[1]) = <<2>>

\* C3: with max_price a tier 1-4, every record comes from a candidate whose
\* price tier is present and at most max_price; with max_price unset, every
\* candidate that got past the rating filter is in the list.
C3_PriceFilter ==
    InLoop =>
      /\ (max_price # None /\ max_price[1] \in 1..4) =>
           \A k \in 1..Len(restaurant_details) :
             LET d == fetched[restaurant_details[k].Name]
             IN  d.price_level # None /\ d.price_level[1] <= max_price[1]
      /\ max_price = None =>
           \A j \in 1..Len(fetched) :
             (j < idx /\ ~BelowMinRating(fetched[j]))
               => InList(restaurant_details, j)

\* C3 witness: with max_price 2, a candidate without a price tier that the
\* rating filter lets through was dropped, and one of tier 2 was returned.
C3_Witness ==
    /\ pc = "returned"
    /\ max_price = Some(2)
    /\ Len(fetched) = 2
    /\ fetched[1].price_level = None
    /\ ~BelowMinRating(fetched[1])
    /\ fetched[2].price_level = Some(2)
    /\ NamesOf(returned[1]) = <<2>>

\* C4: a directions request is issued for a candidate exactly when it passed
\* the filters, the ETA flag is set and the threshold is zero, unset or
\* strictly below the straight-line distance; without a request the record's
\* ETA is null.  With the flag set and a threshold of 1000, a candidate at
\* 400 m gets no request and one at 1200 m gets one.
C4_EtaLookupIff ==
    InLoop =>
      /\ \A k \in 1..Len(restaurant_details) :
           LET r == restaurant_details[k]
               cand == res.results[r.Name]
           IN  /\ EtaRequested(r.Name) <=> EtaDue(cand)
               /\ ~EtaDue(cand) => r.DrivingETA = None
               /\ (get_eta /\ eta_threshold = Some(1000)) =>
                    /\ cand.straight = 400 =>
                         ~EtaRequested(r.Name) /\ r.DrivingETA = None
                    /\ cand.straight = 1200 => EtaRequested(r.Name)
      /\ \A j \in 1..Len(res.results) :
           EtaRequested(j) =>
             /\ j <= Len(fetched)
             /\ Passing(fetched[j])
             /\ EtaDue(res.results[j])
      /\ ApiCount("directions")
           = Cardinality({j \in 1..Len(res.results) : EtaRequested(j)})

\* C4 witness: flag set, threshold 1000, the 400 m candidate was appended
\* without a request and the 1200 m candidate with one.
C4_Witness ==
    /\ pc = "returned"
    /\ get_eta
    /\ eta_threshold = Some(1000)
    /\ Len(returned[1]) = 2
    /\ res.results[1].straight = 400
    /\ res.results[2].straight = 1200
    /\ ~EtaRequested(1)
    /\ returned[1][1].DrivingETA = None
    /\ EtaRequested(2)
    /\ returned[1][2].DrivingETA # None

\* C5: a location that is_coordinate accepts never causes a geocode request;
\* any other location causes exactly one, and it precedes the nearby search.
C5_GeocodeOnlyForAddresses ==
    /\ is_coordinate(location) => ApiCount("geocode") = 0
    /\ ~is_coordinate(location) =>
         /\ ApiCount("geocode") = (IF pc = "resolve" THEN 0 ELSE 1)
         /\ \A k \in 1..Len(requests) :
              requests[k].api = "nearby" =>
                \E j \in 1..(k - 1) : requests[j].api = "geocode"
         /\ requests # <<>> => requests[1].api = "geocode"

\* C5 witness: "40.7128,-74.0060" ran to its return with the parsed
\* coordinate as the search origin and no geocode request.
C5_Witness ==
    /\ location = NewYork
    /\ pc = "returned"
    /\ latlng = <<407128, -740060>>
    /\ requests[1].api = "nearby"
    /\ requests[1].arg.location = latlng
    /\ ApiCount("geocode") = 0

\* C6: a failing details or directions request of one candidate does not end
\* the run with an error.
C6_SubFailureDoesNotAbort ==
    ~(pc = "raised" /\ raised[1].at \in {"details", "directions"})

\* C7: when the nearby search reports a status other than OK, the run
\* returns the empty list, raises nothing and issues no details and no
\* directions request.
C7_NearbyFailureReturnsEmpty ==
    (NearbyAnswered /\ res.status # "OK") =>
      /\ pc = "returned"
      /\ returned = Some(<<>>)
      /\ raised = None
      /\ ApiCount("details") = 0
      /\ ApiCount("directions") = 0

\* C7 witness: the nearby search answered ZERO_RESULTS and the run returned.
C7_Witness ==
    /\ pc = "returned"
    /\ res.status = "ZERO_RESULTS"
    /\ returned = Some(<<>>)

\* C8: when the location is no coordinate literal and the geocoder reports a
\* status other than OK, the run ends in an error carrying the response, with
\* the geocode request as its only request and no result; on OK the search
\* origin is the coordinate of the first geocode result.
C8_GeocodeFailureIsFatal ==
    response # None =>
      /\ ~is_coordinate(location)
      /\ response[1].status # "OK" =>
           /\ pc = "raised"
           /\ raised = Some(Exception("ValueError", "geocode", response[1]))
           /\ returned = None
           /\ Len(requests) = 1
           /\ restaurant_details = <<>>
      /\ response[1].status = "OK" =>
           /\ latlng = response[1].results[1]
           /\ \A k \in 1..Len(requests) :
                requests[k].api = "nearby" =>
                  requests[k].arg.location = response[1].results[1]

\* C8 witness: the geocoder answered REQUEST_DENIED and the run ended with the
\* error that carries that response.
C8_Witness ==
    /\ pc = "raised"
    /\ response # None
    /\ response[1].status = "REQUEST_DENIED"
    /\ raised[1].payload = response[1]

\* C9: when the search succeeds and nothing fails, the returned records are
\* the passing candidates among those iterated, in the response's order and
\* without repetition, and a candidate is left out only behind a full list.
C9_FirstPassingInOrder ==
    (pc = "returned" /\ InLoop) =>
      /\ NamesOf(returned[1]) = PassingRanks(Len(fetched))
      /\ Len(returned[1]) <= max_results
      /\ Len(fetched) < Len(res.results) => Len(returned[1]) = max_results
      /\ \A k \in 1..Len(fetched) : fetched[k].name = res.results[k].place_id

\* C9 witness: with a cap of 1, the first candidate failed a filter, the
\* second passed and was returned, and the list was full at the break.
C9_Witness ==
    /\ pc = "returned"
    /\ InLoop
    /\ max_results = 1
    /\ Len(res.results) = 2
    /\ ~Passing(fetched[1])
    /\ NamesOf(returned[1]) = <<2>>

\* C10: a directions request is issued only for a candidate that passed both
\* filters and is then appended; a run that returns has issued at most as
\* many directions requests as it returns records; once the list is full no
\* details or directions request follows, so the details requests are the
\* candidates up to the one that filled the list.
C10_NoWastedRequests ==
    InLoop =>
      /\ \A j \in 1..Len(res.results) :
           EtaRequested(j) =>
             /\ Passing(fetched[j])
             /\ \/ InList(restaurant_details, j)
                \/ pc = "raised" /\ raised[1].at = "directions" /\ j = idx
      /\ pc = "returned" => ApiCount("directions") <= Len(returned[1])
      /\ (max_results > 0 /\ Len(restaurant_details) = max_results) =>
           LET last == restaurant_details[max_results].Name
           IN  /\ ApiCount("details") = last
               /\ \A j \in 1..Len(res.results) : EtaRequested(j) => j <= last
      /\ (pc = "returned" /\ Len(restaurant_details) # max_results) =>
           ApiCount("details") = Len(res.results)

\* C10 witness: the list filled up at the first of two candidates, with one
\* details and one directions request, and the run returned.
C10_Witness ==
    /\ pc = "returned"
    /\ InLoop
    /\ Len(res.results) = 2
    /\ max_results = 1
    /\ NamesOf(returned[1]) = <<1>>
    /\ ApiCount("details") = 1
    /\ ApiCount("directions") = 1

=============================================================================
